---- MODULE Spec2Model ----
(***************************************************************************)
(* Model of src/index.ts: the S3 access-log harvester.                     *)
(*                                                                         *)
(*   iterateAllFiles  paginated listing of the prefix (async generator)    *)
(*   getContent       fetch of one object body                             *)
(*   parseLine        positional parser of one access-log line             *)
(*   parseContent     line splitting, trimming and blank skipping          *)
(*   writeLines       hand-over of the records to the CSV writer           *)
(*   main             the for-await loop that drives the above             *)
(*                                                                         *)
(* Text is a sequence of one-character strings, so that split, trim, slice *)
(* and join are computed character by character as JavaScript does.        *)
(*                                                                         *)
(* Two specifications:                                                     *)
(*   Spec       a run of main over a listing and a bucket                  *)
(*   SpecParse  parseLine / parseContent applied to drawn inputs           *)
(***************************************************************************)
EXTENDS Integers, Sequences, FiniteSets

VARIABLES
    listing,            \* the pages the storage service holds for the prefix
    continuationToken,  \* iterateAllFiles: let continuationToken
    resp,               \* iterateAllFiles: the response being iterated
    idx,                \* iterateAllFiles: entries of resp.Contents consumed by for-of
    key,                \* main: the loop variable of for-await
    lines,              \* main: let lines
    stdout,             \* what writeLines piped to process.stdout: <<>> or <<records>>
    pc,                 \* where main is suspended
    requested,          \* history: page numbers served, in request order
    yielded,            \* history: keys yielded by iterateAllFiles
    fetched,            \* history: keys whose getContent resolved
    failure,            \* history: "none", or what rejected / threw
    call,               \* SpecParse: which function was applied
    argTokens,          \* SpecParse: tokens the line passed to parseLine was built from
    argLines,           \* SpecParse: raw lines the content passed to parseContent was built from
    ret                 \* SpecParse: what the function returned (or that it threw)

vars == <<listing, continuationToken, resp, idx, key, lines, stdout, pc,
          requested, yielded, fetched, failure, call, argTokens, argLines, ret>>

mainVars == <<listing, continuationToken, resp, idx, key, lines, stdout, pc,
              requested, yielded, fetched, failure>>

parseVars == <<call, argTokens, argLines, ret>>

----------------------------------------------------------------------------
(* Bounds of the model *)

MaxTokens == 21
MaxLines == 2
MaxEntries == 3
MaxPages == 2
MaxRequests == 3

----------------------------------------------------------------------------
(* JavaScript values and string / array primitives *)

\* the value undefined (no text is a one-element sequence holding a nine-letter string)
undefined == <<"undefined">>

\* String(undefined), what string concatenation makes of an undefined operand
undefinedText == <<"u","n","d","e","f","i","n","e","d">>

None == <<>>
Some(x) == <<x>>

MinOf(S) == CHOOSE x \in S : \A y \in S : x <= y
MaxOf(S) == CHOOSE x \in S : \A y \in S : y <= x

\* characters String.prototype.trim removes (those of the model's alphabet)
WhiteSpace == {" ", "\t", "\n", "\r"}

\* relative index of Array/String.prototype.slice: negative counts from the end
sliceIndex(x, n) == IF x < 0 THEN (IF n + x < 0 THEN 0 ELSE n + x)
                    ELSE (IF x > n THEN n ELSE x)

\* s.slice(begin, end), 0-based, end exclusive
slice(s, begin, end) ==
    SubSeq(s, sliceIndex(begin, Len(s)) + 1, sliceIndex(end, Len(s)))

\* arr[i], 0-based; undefined outside the array
at(arr, i) == IF 0 <= i /\ i < Len(arr) THEN arr[i + 1] ELSE undefined

\* s.split(sep) for a one-character separator: never merges separators
RECURSIVE split(_, _)
split(s, sep) ==
    LET hits == {i \in 1..Len(s) : s[i] = sep}
    IN  IF hits = {} THEN <<s>>
        ELSE LET i == MinOf(hits)
             IN  <<SubSeq(s, 1, i - 1)>> \o split(SubSeq(s, i + 1, Len(s)), sep)

\* arr.join(sep)
RECURSIVE join(_, _)
join(arr, sep) ==
    IF Len(arr) = 0 THEN <<>>
    ELSE IF Len(arr) = 1 THEN arr[1]
    ELSE arr[1] \o <<sep>> \o join(Tail(arr), sep)

\* s.trim()
trim(s) ==
    LET keep == {i \in 1..Len(s) : s[i] \notin WhiteSpace}
    IN  IF keep = {} THEN <<>> ELSE SubSeq(s, MinOf(keep), MaxOf(keep))

\* operand of + in a string concatenation
toText(x) == IF x = undefined THEN undefinedText ELSE x

\* outcome of a call: a returned value, or a TypeError thrown
Return(v) == [threw |-> FALSE, value |-> v]
Throw == [threw |-> TRUE]

----------------------------------------------------------------------------
(* parseLine *)

\* ...userAgentAndVersionId: the rest element after the 18 named elements
userAgentAndVersionId_from19(tokens) == slice(tokens, 19, Len(tokens))
userAgentAndVersionId(tokens) == slice(tokens, 18, Len(tokens))

\* userAgentAndVersionId[userAgentAndVersionId.length - 1]
versionIdOf(rest) == at(rest, Len(rest) - 1)

\* userAgentAndVersionId.slice(0, userAgentAndVersionId.length - 1).join(' ')
userAgentOf_keepsLast(rest) == join(slice(rest, 0, Len(rest)), " ")
userAgentOf(rest) == join(slice(rest, 0, Len(rest) - 1), " ")

\* time.slice(1) + timezone.slice(0, timezone.length - 1)
timeOf_spaced(time, timezone) ==
    slice(time, 1, Len(time)) \o <<" ">> \o slice(timezone, 0, Len(timezone) - 1)
timeOf(time, timezone) ==
    slice(time, 1, Len(time)) \o slice(timezone, 0, Len(timezone) - 1)

\* requestURIMethod.slice(1) + ' ' + requestURIPath + ' ' + requestURIProtocol.slice(0, length - 1)
requestURIOf(requestURIMethod, requestURIPath, requestURIProtocol) ==
    slice(requestURIMethod, 1, Len(requestURIMethod)) \o <<" ">>
        \o toText(requestURIPath) \o <<" ">>
        \o slice(requestURIProtocol, 0, Len(requestURIProtocol) - 1)

\* a parseLine that rejects every line without a version id token
parseLine_strict(inputKey, line) ==
    LET tokens == split(line, " ")
    IN  IF Len(tokens) < 19 THEN Throw
        ELSE Return([inputKey |-> inputKey, versionId |-> tokens[Len(tokens)]])

\* .slice on undefined throws a TypeError: time, timezone, requestURIMethod and
\* requestURIProtocol are dereferenced, the other elements are only copied
parseLine(inputKey, line) ==
    LET tokens == split(line, " ")
        time == at(tokens, 2)
        timezone == at(tokens, 3)
        requestURIMethod == at(tokens, 9)
        requestURIPath == at(tokens, 10)
        requestURIProtocol == at(tokens, 11)
        rest == userAgentAndVersionId(tokens)
    IN  IF undefined \in {time, timezone, requestURIMethod, requestURIProtocol}
        THEN Throw
        ELSE Return([
            inputKey       |-> inputKey,
            bucketOwner    |-> at(tokens, 0),
            bucket         |-> at(tokens, 1),
            time           |-> timeOf(time, timezone),
            remoteIP       |-> at(tokens, 4),
            requester      |-> at(tokens, 5),
            requestId      |-> at(tokens, 6),
            operation      |-> at(tokens, 7),
            key            |-> at(tokens, 8),
            requestURI     |-> requestURIOf(requestURIMethod, requestURIPath,
                                            requestURIProtocol),
            statusCode     |-> at(tokens, 12),
            errorCode      |-> at(tokens, 13),
            bytesSent      |-> at(tokens, 14),
            objectSize     |-> at(tokens, 15),
            turnAroundTime |-> at(tokens, 16),
            referrer       |-> at(tokens, 17),
            userAgent      |-> userAgentOf(rest),
            versionId      |-> versionIdOf(rest)])

----------------------------------------------------------------------------
(* parseContent *)

\* the for-of loop over content.split('\n'): result so far in acc
RECURSIVE parseRemaining(_, _, _)
parseRemaining(k, ls, acc) ==
    IF ls = <<>> THEN Return(acc)
    ELSE LET trimmedLine == trim(Head(ls))
         IN  IF Len(trimmedLine) = 0
             THEN parseRemaining(k, Tail(ls), acc)
             ELSE LET r == parseLine(k, trimmedLine)
                  IN  IF r.threw THEN Throw
                      ELSE parseRemaining(k, Tail(ls), Append(acc, r.value))

\* the same loop without the blank-line test
RECURSIVE parseRemaining_noSkip(_, _, _)
parseRemaining_noSkip(k, ls, acc) ==
    IF ls = <<>> THEN Return(acc)
    ELSE LET r == parseLine(k, trim(Head(ls)))
         IN  IF r.threw THEN Throw
             ELSE parseRemaining_noSkip(k, Tail(ls), Append(acc, r.value))

parseContent_noSkip(k, content) == parseRemaining_noSkip(k, split(content, "\n"), <<>>)

parseContent(k, content) == parseRemaining(k, split(content, "\n"), <<>>)

----------------------------------------------------------------------------
(* Inputs: access-log lines *)

\* the 18 tokens parseLine names, as one S3 access-log line carries them
NamedTokens == <<
    <<"7","9","a","5">>,
    <<"b","k","t">>,
    <<"[","0","2","/","J","a","n","/","2","0","2","4",":","1","0",":","0","0",":","0","0">>,
    <<"+","0","0","0","0","]">>,
    <<"1",".","2",".","3",".","4">>,
    <<"a","r","n">>,
    <<"3","E","5","7">>,
    <<"G","E","T",".","O","B","J">>,
    <<"o","b","j">>,
    <<"\"","G","E","T">>,
    <<"/","m","y","/","o","b","j","e","c","t">>,
    <<"H","T","T","P","/","1",".","1","\"">>,
    <<"2","0","0">>,
    <<"-">>,
    <<"1","1","3">>,
    <<"1","1","4">>,
    <<"7">>,
    <<"\"","-","\"">> >>

UserAgentTokens == <<
    <<"M","o","z","i","l","l","a","/","5",".","0">>,
    <<"(","c","o","m","p","a","t","i","b","l","e",")">>,
    <<"c","u","r","l","/","7",".","6","8",".","0">> >>

VersionToken == <<"v","3","I","d">>

\* a line of n tokens: a prefix of the named tokens, or all of them followed by
\* n - 19 user-agent tokens and the version id
TokensOf(n) ==
    IF n <= 18 THEN SubSeq(NamedTokens, 1, n)
    ELSE NamedTokens
         \o [i \in 1..(n - 19) |-> UserAgentTokens[((i - 1) % 3) + 1]]
         \o <<VersionToken>>

\* the same tokens with token e empty (a doubled space in the line)
WithEmpty(tokens, e) == [i \in 1..Len(tokens) |-> IF i = e THEN <<>> ELSE tokens[i]]

\* token lists of trimmed, non-empty lines: first and last token are not empty
LineInputs ==
    {WithEmpty(TokensOf(p[1]), p[2]) :
        p \in {q \in (1..MaxTokens) \X (0..MaxTokens) :
                 q[2] = 0 \/ (1 < q[2] /\ q[2] < q[1])}}

LineOf(n) == join(TokensOf(n), " ")

\* raw lines of an object body
ContentLines == {
    LineOf(19),
    LineOf(21),
    LineOf(18),
    LineOf(12),
    LineOf(11),
    LineOf(1),
    LineOf(20) \o <<"\r">>,
    <<" ", "\t">> \o LineOf(19) \o <<" ">>,
    <<" ", " ", " ">>,
    <<>> }

\* the raw lines of "\n   \n\n"
BlankLines == << <<>>, <<" ", " ", " ">>, <<>>, <<>> >>

ContentInputs ==
    UNION {[1..n -> ContentLines] : n \in 1..MaxLines} \cup {BlankLines}

KeyA == <<"a",".","l","o","g">>
KeyB == <<"b",".","l","o","g">>
KeyC == <<"c",".","l","o","g">>
KeyD == <<"d",".","l","o","g">>
Keys == {KeyA, KeyB, KeyC, KeyD}

----------------------------------------------------------------------------
(* The storage service *)

\* the raw lines of each object's body; no lines when the object has no body
BucketLines == [k \in Keys |->
    CASE k = KeyA -> <<LineOf(19), LineOf(21), <<>>>>
      [] k = KeyB -> <<>>
      [] k = KeyC -> <<LineOf(14) \o <<"\r">>, <<" ", " ">>, LineOf(20)>>
      [] k = KeyD -> <<LineOf(5)>>]

\* the objects behind the keys: resp.Body of getObject, None when there is no body
Bucket == [k \in Keys |->
    IF BucketLines[k] = <<>> THEN None ELSE Some(join(BucketLines[k], "\n"))]

\* entries of resp.Contents: Key and Size are optional
Entry(k, size) == [Key |-> k, Size |-> size]

EntryChoices ==
    {Entry(Some(k), Some(7)) : k \in Keys}
    \cup {Entry(Some(KeyA), Some(0)), Entry(Some(KeyA), Some(-1)),
          Entry(Some(KeyA), None), Entry(None, Some(7))}

\* the entries es cut into pages after the positions cuts[1] <= cuts[2] <= ...
PagesOf(es, cuts) ==
    LET edge(i) == IF i = 0 THEN 0 ELSE IF i > Len(cuts) THEN Len(es) ELSE cuts[i]
    IN  [i \in 1..(Len(cuts) + 1) |-> Some(SubSeq(es, edge(i - 1) + 1, edge(i)))]

\* cut positions that leave no page without an entry
CutChoices(n) ==
    {c \in UNION {[1..p -> 1..(n - 1)] : p \in 0..(MaxPages - 1)} :
        \A i \in 1..(Len(c) - 1) : c[i] < c[i + 1]}

\* the entry sequences a listing is cut from
EntrySeqs == UNION {[1..n -> EntryChoices] : n \in 1..MaxEntries}

\* a listing without entries is one page whose Contents is empty or left out
EmptyListings == {<<Some(<<>>)>>, <<None>>}

\* ListObjectsV2: a request without a token is served the first page, a request
\* with a token the page the token addresses.  The response echoes the request's
\* token in ContinuationToken and, when truncated, carries the token of the
\* following page in NextContinuationToken.
listObjectsV2(l, token) ==
    LET p == IF token = None THEN 1 ELSE token[1]
    IN  [Page |-> p,
         Contents |-> l[p],
         IsTruncated |-> p < Len(l),
         ContinuationToken |-> token,
         NextContinuationToken |-> IF p < Len(l) THEN Some(p + 1) ELSE None]

NoResponse ==
    [Page |-> 0, Contents |-> None, IsTruncated |-> FALSE,
     ContinuationToken |-> None, NextContinuationToken |-> None]

\* getObject(...).promise() resolved: body.toString(), or nothing when Body is null
getContent(k) == Bucket[k]

----------------------------------------------------------------------------
(* iterateAllFiles and main *)

\* elem.Key != null && elem.Size != null && elem.Size > 0
passes_zeroSize(elem) == elem.Key # None /\ elem.Size # None /\ elem.Size[1] >= 0
passes(elem) == elem.Key # None /\ elem.Size # None /\ elem.Size[1] > 0

\* lines = [...lines, ...parseContent(key, content)]
accumulate_prepend(ls, parsed) == parsed \o ls
accumulate(ls, parsed) == ls \o parsed

\* stringify(lines, {header: true}).pipe(output): the records handed to the writer
writeLines(ls) == Some(ls)

\* The generator runs on from entry `from` of r.Contents until it yields the
\* next key that passes, or reaches the end of the page: there it stores
\* resp.ContinuationToken and awaits the next request when the page is
\* truncated, and returns otherwise (main then leaves the for-await loop).
resume(r, from) ==
    LET content == r.Contents[1]
        hits == {i \in from..Len(content) : passes(content[i])}
    IN  IF hits # {}
        THEN /\ idx' = MinOf(hits)
             /\ key' = content[MinOf(hits)].Key[1]
             /\ yielded' = Append(yielded, content[MinOf(hits)].Key[1])
             /\ pc' = "fetch"
             /\ UNCHANGED continuationToken
        ELSE /\ idx' = Len(content)
             /\ UNCHANGED <<key, yielded>>
             /\ IF r.IsTruncated
                THEN continuationToken' = r.ContinuationToken /\ pc' = "list"
                ELSE UNCHANGED continuationToken /\ pc' = "write"

\* await conn.listObjectsV2(...).promise() resolves
iterateAllFiles_listObjectsV2 ==
    /\ pc = "list"
    /\ Len(requested) < MaxRequests
    /\ LET r == listObjectsV2(listing, continuationToken)
       IN  /\ resp' = r
           /\ requested' = Append(requested, r.Page)
           /\ IF r.Contents = None
              THEN /\ pc' = "write"
                   /\ idx' = 0
                   /\ UNCHANGED <<continuationToken, key, yielded>>
              ELSE resume(r, 1)
    /\ UNCHANGED <<listing, lines, stdout, fetched, failure, parseVars>>

\* await conn.listObjectsV2(...).promise() rejects: main's promise rejects
iterateAllFiles_listObjectsV2_rejects ==
    /\ pc = "list"
    /\ Len(requested) < MaxRequests
    /\ pc' = "aborted"
    /\ failure' = "list"
    /\ UNCHANGED <<listing, continuationToken, resp, idx, key, lines, stdout,
                   requested, yielded, fetched, parseVars>>

\* getContent resolves with no value and then main skips a step of the loop
\* by dereferencing it
main_getContent_absent_dereferenced ==
    /\ pc = "fetch"
    /\ getContent(key) = None
    /\ fetched' = Append(fetched, key)
    /\ pc' = "aborted"
    /\ failure' = "parse"
    /\ UNCHANGED <<listing, continuationToken, resp, idx, key, lines, stdout,
                   requested, yielded, parseVars>>

\* await getContent(...) resolves with no value: continue
main_getContent_absent ==
    /\ pc = "fetch"
    /\ getContent(key) = None
    /\ fetched' = Append(fetched, key)
    /\ resume(resp, idx + 1)
    /\ UNCHANGED <<listing, resp, lines, stdout, requested, failure, parseVars>>

\* a rejected getObject that is swallowed: the loop goes on
main_getContent_rejects_swallowed ==
    /\ pc = "fetch"
    /\ failure' = "fetch"
    /\ resume(resp, idx + 1)
    /\ UNCHANGED <<listing, resp, lines, stdout, requested, fetched, parseVars>>

\* await getContent(...) rejects: main's promise rejects
main_getContent_rejects ==
    /\ pc = "fetch"
    /\ pc' = "aborted"
    /\ failure' = "fetch"
    /\ UNCHANGED <<listing, continuationToken, resp, idx, key, lines, stdout,
                   requested, yielded, fetched, parseVars>>

\* parseContent(key, content) for the content of each key that has one; the
\* objects do not change during a run, so each is parsed once here
parsedContent == [k \in Keys |->
    IF getContent(k) = None THEN Return(<<>>) ELSE parseContent(k, getContent(k)[1])]

\* await getContent(...) resolves with text: parseContent, then the next key;
\* a TypeError out of parseLine is caught nowhere and rejects main's promise
main_parseContent ==
    /\ pc = "fetch"
    /\ getContent(key) # None
    /\ fetched' = Append(fetched, key)
    /\ LET parsed == parsedContent[key]
       IN  IF parsed.threw
           THEN /\ pc' = "aborted"
                /\ failure' = "parse"
                /\ UNCHANGED <<continuationToken, idx, key, lines, yielded>>
           ELSE /\ lines' = accumulate(lines, parsed.value)
                /\ failure' = failure
                /\ resume(resp, idx + 1)
    /\ UNCHANGED <<listing, resp, stdout, requested, parseVars>>

\* writeLines(lines, process.stdout), after the loop
main_writeLines ==
    /\ pc = "write"
    /\ stdout' = writeLines(lines)
    /\ pc' = "done"
    /\ UNCHANGED <<listing, continuationToken, resp, idx, key, lines,
                   requested, yielded, fetched, failure, parseVars>>

ParseIdle ==
    /\ call = "idle"
    /\ argTokens = <<>>
    /\ argLines = <<>>
    /\ ret = Throw

\* main(...args): nothing listed, nothing read, nothing written
MainStart ==
    /\ continuationToken = None
    /\ resp = NoResponse
    /\ idx = 0
    /\ key = <<>>
    /\ lines = <<>>
    /\ stdout = None
    /\ pc = "list"
    /\ requested = <<>>
    /\ yielded = <<>>
    /\ fetched = <<>>
    /\ failure = "none"

\* listings of at most MaxEntries entries on at most MaxPages pages: a truncated
\* page holds entries and so does the page after it
Init ==
    /\ \/ \E es \in EntrySeqs : \E c \in CutChoices(Len(es)) : listing = PagesOf(es, c)
       \/ listing \in EmptyListings
    /\ MainStart
    /\ ParseIdle

Next ==
    \/ iterateAllFiles_listObjectsV2
    \/ iterateAllFiles_listObjectsV2_rejects
    \/ main_getContent_absent
    \/ main_getContent_rejects
    \/ main_parseContent
    \/ main_writeLines

Spec == Init /\ [][Next]_vars

----------------------------------------------------------------------------
(* parseLine and parseContent applied to drawn inputs *)

CallParseLine ==
    /\ call = "idle"
    /\ \E k \in {KeyA, KeyB}, tokens \in LineInputs :
          /\ call' = "parseLine"
          /\ argTokens' = tokens
          /\ argLines' = <<>>
          /\ key' = k
          /\ ret' = parseLine(k, join(tokens, " "))
    /\ UNCHANGED <<listing, continuationToken, resp, idx, lines, stdout, pc,
                   requested, yielded, fetched, failure>>

CallParseContent ==
    /\ call = "idle"
    /\ \E raw \in ContentInputs :
          /\ call' = "parseContent"
          /\ argLines' = raw
          /\ argTokens' = <<>>
          /\ key' = KeyA
          /\ ret' = parseContent(KeyA, join(raw, "\n"))
    /\ UNCHANGED <<listing, continuationToken, resp, idx, lines, stdout, pc,
                   requested, yielded, fetched, failure>>

InitParse ==
    /\ listing = <<Some(<<>>)>>
    /\ MainStart
    /\ ParseIdle

NextParse ==
    \/ CallParseLine
    \/ CallParseContent

SpecParse == InitParse /\ [][NextParse]_vars

----------------------------------------------------------------------------
(* Vocabulary of the properties *)

FieldNames == {"inputKey", "bucketOwner", "bucket", "time", "remoteIP", "requester",
               "requestId", "operation", "key", "requestURI", "statusCode",
               "errorCode", "bytesSent", "objectSize", "turnAroundTime", "referrer",
               "userAgent", "versionId"}

\* the fields copied from one token, and the position of that token in the line
PositionOf == [bucketOwner |-> 1, bucket |-> 2, remoteIP |-> 5, requester |-> 6,
               requestId |-> 7, operation |-> 8, key |-> 9, statusCode |-> 13,
               errorCode |-> 14, bytesSent |-> 15, objectSize |-> 16,
               turnAroundTime |-> 17, referrer |-> 18]

AllPopulated(r) ==
    /\ ~r.threw
    /\ DOMAIN r.value = FieldNames
    /\ \A f \in FieldNames : r.value[f] # undefined

\* the tokens written one after the other with one space between neighbours
RECURSIVE Spaced(_)
Spaced(tokens) ==
    IF tokens = <<>> THEN <<>>
    ELSE IF Len(tokens) = 1 THEN tokens[1]
    ELSE Spaced(SubSeq(tokens, 1, Len(tokens) - 1)) \o <<" ">> \o tokens[Len(tokens)]

DropFirst(t) == [i \in 1..(Len(t) - 1) |-> t[i + 1]]
DropLast(t) == [i \in 1..(Len(t) - 1) |-> t[i]]

NotBlank(l) == \E i \in 1..Len(l) : l[i] \notin WhiteSpace

\* space-separated tokens of a non-blank raw line once its outer white space is gone
TokenCountOf(l) ==
    LET inked == {i \in 1..Len(l) : l[i] \notin WhiteSpace}
    IN  Cardinality({i \in MinOf(inked)..MaxOf(inked) : l[i] = " "}) + 1

RECURSIVE Flatten(_)
Flatten(ss) == IF ss = <<>> THEN <<>> ELSE Head(ss) \o Flatten(Tail(ss))

EntriesOf(contents) == IF contents = None THEN <<>> ELSE contents[1]

Wanted(e) == Len(e.Key) = 1 /\ Len(e.Size) = 1 /\ e.Size[1] > 0

KeysIn(es) == LET sel == SelectSeq(es, Wanted) IN [i \in 1..Len(sel) |-> sel[i].Key[1]]

\* every entry of the listing, page after page
AllEntries == Flatten([p \in 1..Len(listing) |-> EntriesOf(listing[p])])

\* the entries iterateAllFiles has gone through: the pages received before the
\* current one, and the current one up to the for-of position
Consumed ==
    Flatten([i \in 1..(Len(requested) - 1) |-> EntriesOf(listing[requested[i]])])
        \o SubSeq(EntriesOf(resp.Contents), 1, idx)

\* the records of one key: one per non-blank line of its body, in line order
RecordsOfKey(k) ==
    LET nb == SelectSeq(BucketLines[k], NotBlank)
    IN  [j \in 1..Len(nb) |-> parseLine(k, trim(nb[j])).value]

----------------------------------------------------------------------------
(* Properties of Spec *)

\* C1 (as stated): the pages of the listing are requested one after the other,
\* each once; no more keys are yielded than the listing holds; and the loop is
\* left only after the last page was requested.
C1_ListingFinishes ==
    /\ \A i \in 1..Len(requested) : requested[i] = i
    /\ Len(yielded) <= Len(KeysIn(AllEntries))
    /\ pc \in {"write", "done"} => Len(requested) = Len(listing)

\* C5: the records handed to the CSV writer are the records of the listed keys,
\* key after key in listing order, each key's records in line order and tagged
\* with that key.
C5_RecordsInListingAndLineOrder ==
    pc = "done" =>
        LET ks == KeysIn(AllEntries)
        IN  stdout = Some(Flatten([i \in 1..Len(ks) |-> RecordsOfKey(ks[i])]))

C5_Witness ==
    /\ pc = "done"
    /\ yielded = <<KeyA, KeyC>>
    /\ Len(stdout[1]) = 4
    /\ stdout[1][2].inputKey = KeyA
    /\ stdout[1][3].inputKey = KeyC

\* C6: a step in which getContent resolves for a key that has no body adds no
\* record, keeps the accumulated records, writes nothing, raises no error and
\* leaves main in its loop or on its way to the CSV writer.
C6_AbsentBodySkipped ==
    [][(pc = "fetch" /\ Bucket[key] = None /\ fetched' # fetched) =>
          /\ lines' = lines
          /\ stdout' = stdout
          /\ failure' = "none"
          /\ pc' \in {"fetch", "list", "write"}]_vars

C6_Witness ==
    /\ pc = "done"
    /\ fetched = <<KeyB, KeyA>>
    /\ Len(stdout[1]) = 2

\* C7: whatever is written is written after the listing is exhausted and every
\* listed key was fetched and parsed; once a request has failed nothing is
\* written and the run is aborted.
C7_AllOrNothing ==
    /\ stdout # None =>
          /\ pc = "done"
          /\ failure = "none"
          /\ requested # <<>> /\ (~resp.IsTruncated \/ resp.Contents = None)
          /\ yielded = KeysIn(AllEntries)
          /\ fetched = yielded
    /\ failure # "none" => (stdout = None /\ pc = "aborted")

C7_Witness ==
    /\ pc = "aborted"
    /\ failure = "fetch"
    /\ Len(lines) > 0
    /\ stdout = None

\* C9: the keys yielded are exactly the keys of the entries gone through that
\* have a key and a size greater than zero, in the order of the pages.
C9_YieldsExactlyPassing == yielded = KeysIn(Consumed)

C9_Witness ==
    /\ Len(yielded) = 1
    /\ Len(Consumed) = 2
    /\ Consumed[1].Size = Some(0)

----------------------------------------------------------------------------
(* Properties of SpecParse *)

\* C2 (as stated): 17 tokens before the user-agent span and one trailing token,
\* 18 in all, make every field defined.
C2_Original ==
    (call = "parseLine" /\ Len(argTokens) >= 18) => AllPopulated(ret)

\* C2 (amended): a line of at least 19 tokens, the 18 named ones and one
\* trailing token, gives a record with all 18 fields and none undefined.
C2_AllFieldsPopulated ==
    (call = "parseLine" /\ Len(argTokens) >= 19) => AllPopulated(ret)

C2_Witness ==
    /\ call = "parseLine"
    /\ Len(argTokens) = 19
    /\ AllPopulated(ret)
    /\ ret.value.versionId = VersionToken

\* C3 (as stated): for every line, versionId is the last token and userAgent
\* the tokens between the referrer and the last token.
C3_Original ==
    call = "parseLine" =>
        /\ ~ret.threw
        /\ ret.value.versionId = argTokens[Len(argTokens)]
        /\ ret.value.userAgent = Spaced(SubSeq(argTokens, 19, Len(argTokens) - 1))

\* C3 (amended): for every line of at least 19 tokens, versionId is the last
\* token and userAgent the tokens after the 18th and before the last, joined by
\* single spaces in their order; with exactly 19 tokens userAgent is empty.
C3_UserAgentAndVersionId ==
    (call = "parseLine" /\ Len(argTokens) >= 19) =>
        /\ ~ret.threw
        /\ ret.value.versionId = argTokens[Len(argTokens)]
        /\ ret.value.userAgent = Spaced(SubSeq(argTokens, 19, Len(argTokens) - 1))
        /\ Len(argTokens) = 19 => ret.value.userAgent = <<>>

C3_Witness ==
    /\ call = "parseLine"
    /\ Len(argTokens) = 21
    /\ ~ret.threw
    /\ ret.value.userAgent = UserAgentTokens[1] \o <<" ">> \o UserAgentTokens[2]
    /\ ret.value.versionId = VersionToken

C10_TimeReconstruction ==
    (call = "parseLine" /\ Len(argTokens) >= 18) =>
        /\ ~ret.threw
        /\ ret.value.time = DropFirst(argTokens[3]) \o DropLast(argTokens[4])

C10_Witness ==
    /\ call = "parseLine"
    /\ Len(argTokens) >= 18
    /\ argTokens[3] = <<"[","0","2","/","J","a","n","/","2","0","2","4",":","1","0",":","0","0",":","0","0">>
    /\ argTokens[4] = <<"+","0","0","0","0","]">>
    /\ ret.value.time = <<"0","2","/","J","a","n","/","2","0","2","4",":","1","0",":","0","0",":","0","0","+","0","0","0","0">>

====
